---- MODULE Spec2Model ----
(***************************************************************************)
(* Model of FileListWidget in file_explorer.py: the list of header rows    *)
(* and file rows shown for one folder, the sidecar file_groups.yaml that   *)
(* save_yaml writes and setFolderPath reads, and the reconciliation of the *)
(* list with the directory listing done by handle_folder_change.           *)
(***************************************************************************)
EXTENDS Integers, Sequences, FiniteSets, TLC

\* ------------------------------------------------------------------ bounds
\* Number of distinct regular files that can exist in the folder.
NumFiles == 2
\* Number of header rows add_header may bring the list to.
MaxHeaders == 1
\* Number of rows the list of widgets/file_list.py may be brought to.
MaxLegacyRows == 4

\* ------------------------------------------------- strings, as the code has them
\* A label or a mapping key is a Python str: a sequence of characters.
\* A filename is an atom (the code only compares filenames for equality).
SidecarName == "file_groups.yaml"

\* Names in the order QDir.entryList returns them (sorted by name).
DirOrder == <<"a", "b", "c", "d", SidecarName>>

Files == {DirOrder[i] : i \in 1..NumFiles}

\* The place of the name n in the enumeration order.
DirIndex(n) == CHOOSE i \in 1..Len(DirOrder) : DirOrder[i] = n

DefaultKey == <<"d", "e", "f", "a", "u", "l", "t">>
NewHeaderText == <<"N", "e", "w", " ", "H", "e", "a", "d", "e", "r">>
UnnamedHeaderText == <<"U", "n", "n", "a", "m", "e", "d", " ", "H", "e", "a", "d", "e", "r">>

\* Characters in code point order, for Python's str comparison.
CodePoints == <<"0", "1", "2", "3", "4", "5", "6", "7", "8", "9",
                "a", "d", "e", "f", "l", "o", "p", "t", "u">>

Ord(c) == CHOOSE i \in 1..Len(CodePoints) : CodePoints[i] = c

\* str(n) for n >= 0: the decimal digits of n.
RECURSIVE Str(_)
Str(n) == IF n < 10 THEN <<CodePoints[n + 1]>>
          ELSE Str(n \div 10) \o <<CodePoints[(n % 10) + 1]>>

\* Python's s < t on str: lexicographic by code point, a proper prefix first.
RECURSIVE StrLess(_, _)
StrLess(s, t) ==
    IF t = <<>> THEN FALSE
    ELSE IF s = <<>> THEN TRUE
    ELSE IF Head(s) = Head(t) THEN StrLess(Tail(s), Tail(t))
    ELSE Ord(Head(s)) < Ord(Head(t))

\* The sort key of setFolderPath, (x != "default", x), compared as tuples.
KeyLess(x, y) ==
    IF (x # DefaultKey) # (y # DefaultKey) THEN x = DefaultKey
    ELSE StrLess(x, y)

\* sorted(keys, key=...) over a set of distinct keys.
RECURSIVE SortedKeys(_)
SortedKeys(ks) ==
    IF ks = {} THEN <<>>
    ELSE LET m == CHOOSE k \in ks : \A o \in ks \ {k} : KeyLess(k, o)
         IN <<m>> \o SortedKeys(ks \ {m})

\* folder_path when no folder is open (None), and the one folder of the model.
NoFolder == "None"
Folder == "folder"

\* ------------------------------------------------------------------ rows
\* A header row holds the text of its QLabel, or of the QLineEdit that
\* replaces the QLabel while the header is edited.
FileRow(name) == [type |-> "file", text |-> name, label |-> <<>>, editing |-> FALSE]
HeaderRow(lbl) == [type |-> "header", text |-> "", label |-> lbl, editing |-> FALSE]

\* One file row per name of the sequence names (create_file_item, addItem).
RECURSIVE FileRows(_)
FileRows(names) ==
    IF names = <<>> THEN <<>> ELSE <<FileRow(Head(names))>> \o FileRows(Tail(names))

IsHeader(r) == r.type = "header"
IsFile(r) == r.type = "file"

\* The filenames of the file rows, as a set and in list order.
FileNamesOf(rs) == {rs[i].text : i \in {j \in 1..Len(rs) : IsFile(rs[j])}}

HeaderCount(rs) == Cardinality({i \in 1..Len(rs) : IsHeader(rs[i])})

\* Number of rows before the first header row (the default section's length).
DefaultLen(rs) ==
    IF \E i \in 1..Len(rs) : IsHeader(rs[i])
    THEN (CHOOSE i \in 1..Len(rs) : IsHeader(rs[i]) /\ \A j \in 1..(i - 1) : IsFile(rs[j])) - 1
    ELSE Len(rs)

\* rs without its row i (takeItem), and rs with r put at 0-based position p (insertItem).
TakeItem(rs, i) == SubSeq(rs, 1, i - 1) \o SubSeq(rs, i + 1, Len(rs))
InsertItem(rs, p, r) == SubSeq(rs, 1, p) \o <<r>> \o SubSeq(rs, p + 1, Len(rs))

\* str.strip() on a sequence of characters.
RECURSIVE LStrip(_)
LStrip(s) == IF s # <<>> /\ Head(s) = " " THEN LStrip(Tail(s)) ELSE s

RECURSIVE RStrip(_)
RStrip(s) == IF s # <<>> /\ s[Len(s)] = " " THEN RStrip(SubSeq(s, 1, Len(s) - 1)) ELSE s

Strip(s) == RStrip(LStrip(s))

\* The header text save_yaml reads from the widget of the header row r: the
\* QLabel's text, or the stripped text of the QLineEdit, "Unnamed Header"
\* when that is empty.
HeaderTextOf(r) ==
    IF r.editing
    THEN (IF Strip(r.label) = <<>> THEN UnnamedHeaderText ELSE Strip(r.label))
    ELSE r.label

\* ------------------------------------------------------------- the sidecar
\* The content of file_groups.yaml: absent, something that is not a mapping
\* with a file_groups mapping in it, or file_groups as the list of its
\* entries in file order. An entry may lack "header" or "files".
NoSidecar == [kind |-> "absent", groups |-> <<>>]
Garbage == [kind |-> "garbage", groups |-> <<>>]
Groups(g) == [kind |-> "groups", groups |-> g]

Section(key, hdr, fs) ==
    [key |-> key, fields |-> {"header", "files"}, header |-> hdr, files |-> fs]

\* file_groups[key] = {"header": hdr, "files": fs} on an insertion-ordered dict.
PutGroup(fg, key, hdr, fs) ==
    IF \E i \in 1..Len(fg) : fg[i].key = key
    THEN LET k == CHOOSE i \in 1..Len(fg) : fg[i].key = key
         IN SubSeq(fg, 1, k - 1) \o <<Section(key, hdr, fs)>> \o SubSeq(fg, k + 1, Len(fg))
    ELSE Append(fg, Section(key, hdr, fs))

\* The loop of save_yaml over the rows, from row i on.
RECURSIVE SaveLoop(_, _, _)
SaveLoop(rs, i, st) ==
    IF i > Len(rs) THEN st
    ELSE IF IsHeader(rs[i])
    THEN SaveLoop(rs, i + 1,
            [file_groups |->
                IF st.current_files # <<>>
                THEN PutGroup(st.file_groups, st.current_section,
                              st.current_header, st.current_files)
                ELSE st.file_groups,
             current_section |-> Str(st.section_index + 1),
             current_header |-> HeaderTextOf(rs[i]),
             current_files |-> <<>>,
             section_index |-> st.section_index + 1])
    ELSE SaveLoop(rs, i + 1, [st EXCEPT !.current_files = Append(@, rs[i].text)])

\* save_yaml starting from an empty mapping: "default" is written like any
\* other section, only when it has files.
FileGroupsOfNoDefault(rs) ==
    LET st == SaveLoop(rs, 1,
                [file_groups |-> <<>>,
                 current_section |-> DefaultKey,
                 current_header |-> <<>>,
                 current_files |-> <<>>,
                 section_index |-> 0])
    IN IF st.current_files # <<>>
       THEN PutGroup(st.file_groups, st.current_section,
                     st.current_header, st.current_files)
       ELSE st.file_groups

\* yaml.dump with its default sort_keys=True: the entries by ascending key.
RECURSIVE SortedByKey(_)
SortedByKey(fg) ==
    IF fg = <<>> THEN <<>>
    ELSE LET m == CHOOSE i \in 1..Len(fg) :
                    \A j \in 1..Len(fg) : j # i => StrLess(fg[i].key, fg[j].key)
         IN <<fg[m]>> \o SortedByKey(SubSeq(fg, 1, m - 1) \o SubSeq(fg, m + 1, Len(fg)))

FileGroupsOfSortedKeys(rs) ==
    LET st == SaveLoop(rs, 1,
                [file_groups |-> <<Section(DefaultKey, <<>>, <<>>)>>,
                 current_section |-> DefaultKey,
                 current_header |-> <<>>,
                 current_files |-> <<>>,
                 section_index |-> 0])
    IN SortedByKey(IF st.current_files # <<>>
                   THEN PutGroup(st.file_groups, st.current_section,
                                 st.current_header, st.current_files)
                   ELSE st.file_groups)

\* The mapping save_yaml dumps for the rows rs.
FileGroupsOf(rs) ==
    LET st == SaveLoop(rs, 1,
                [file_groups |-> <<Section(DefaultKey, <<>>, <<>>)>>,
                 current_section |-> DefaultKey,
                 current_header |-> <<>>,
                 current_files |-> <<>>,
                 section_index |-> 0])
    IN IF st.current_files # <<>>
       THEN PutGroup(st.file_groups, st.current_section,
                     st.current_header, st.current_files)
       ELSE st.file_groups

\* A handler that leaves the sidecar as it found it.
SaveYamlSkipped(fp, rs, sc) == sc

\* save_yaml without its test of folder_path.
SaveYamlNoFolderTest(fp, rs, sc) == Groups(FileGroupsOf(rs))

\* The sidecar after save_yaml ran with folder fp open on rows rs.
SaveYaml(fp, rs, sc) == IF fp = NoFolder THEN sc ELSE Groups(FileGroupsOf(rs))

\* ------------------------------------------------------------ the directory
\* QDir.entryList(QDir.Files) of the folder holding the files dk, and the
\* sidecar when it exists; then the filter f != "file_groups.yaml".
EntryList(dk, sc) ==
    LET InDir(n) == n \in dk \/ (n = SidecarName /\ sc.kind # "absent")
    IN SelectSeq(DirOrder, InDir)

\* The listing with the filter on the sidecar's name forgotten.
ListedFilesUnfiltered(dk, sc) == EntryList(dk, sc)

ListedFiles(dk, sc) ==
    LET NotSidecar(n) == n # SidecarName
    IN SelectSeq(EntryList(dk, sc), NotSidecar)

SeqToSet(s) == {s[i] : i \in 1..Len(s)}

\* ------------------------------------------------------------ setFolderPath
GroupOf(fg, key) == fg[CHOOSE i \in 1..Len(fg) : fg[i].key = key]

\* The loop of setFolderPath with the os.path.exists test on each file forgotten.
RECURSIVE LoadLoopNoExists(_, _, _, _, _)
LoadLoopNoExists(fg, ks, i, dk, acc) ==
    IF i > Len(ks) THEN acc
    ELSE LET section == GroupOf(fg, ks[i])
             withHeader == IF ks[i] # DefaultKey
                           THEN Append(acc, HeaderRow(section.header))
                           ELSE acc
             withFiles == withHeader \o FileRows(section.files)
         IN IF ks[i] # DefaultKey /\ "header" \notin section.fields THEN acc
            ELSE IF "files" \notin section.fields THEN withHeader
            ELSE LoadLoopNoExists(fg, ks, i + 1, dk, withFiles)

\* The loop of setFolderPath over the sorted keys, from key i on. A section
\* without "header" or "files" raises KeyError: the loop ends there and the
\* rows added so far stay in the list.
RECURSIVE LoadLoop(_, _, _, _, _)
LoadLoop(fg, ks, i, dk, acc) ==
    IF i > Len(ks) THEN acc
    ELSE LET section == GroupOf(fg, ks[i])
             Exists(f) == f \in dk
             withHeader == IF ks[i] # DefaultKey
                           THEN Append(acc, HeaderRow(section.header))
                           ELSE acc
             withFiles == withHeader \o FileRows(SelectSeq(section.files, Exists))
         IN IF ks[i] # DefaultKey /\ "header" \notin section.fields THEN acc
            ELSE IF "files" \notin section.fields THEN withHeader
            ELSE LoadLoop(fg, ks, i + 1, dk, withFiles)

\* The rows in the list after the try block of setFolderPath.
LoadRows(sc, dk) ==
    IF sc.kind # "groups" THEN <<>>
    ELSE LoadLoop(sc.groups,
                  SortedKeys({sc.groups[i].key : i \in 1..Len(sc.groups)}),
                  1, dk, <<>>)

\* The rows the fallback of setFolderPath puts in the list.
FallbackRows(dk, sc) == FileRows(ListedFiles(dk, sc))

\* The sidecar the fallback of setFolderPath writes.
FallbackSidecar(dk, sc) == Groups(<<Section(DefaultKey, <<>>, ListedFiles(dk, sc))>>)

\* The rows in the list, and the sidecar in the folder, when setFolderPath
\* reaches its call of handle_folder_change: the fallback ran if nothing loaded.
RowsBeforeReconcile(sc, dk) ==
    IF Len(LoadRows(sc, dk)) = 0 THEN FallbackRows(dk, sc) ELSE LoadRows(sc, dk)

SidecarBeforeReconcile(sc, dk) ==
    IF Len(LoadRows(sc, dk)) = 0 THEN FallbackSidecar(dk, sc) ELSE sc

\* ------------------------------------------------------ handle_folder_change
\* The orders in which Python may iterate a set S.
Orders(S) ==
    {o \in [1..Cardinality(S) -> S] : \A i, j \in 1..Cardinality(S) : o[i] = o[j] => i = j}

\* The inner loop of the removal: the first file row named f is taken.
RemoveFirst(rs, f) ==
    IF \E i \in 1..Len(rs) : IsFile(rs[i]) /\ rs[i].text = f
    THEN TakeItem(rs, CHOOSE i \in 1..Len(rs) :
                        /\ IsFile(rs[i]) /\ rs[i].text = f
                        /\ \A j \in 1..(i - 1) : ~(IsFile(rs[j]) /\ rs[j].text = f))
    ELSE rs

RECURSIVE RemoveAll(_, _)
RemoveAll(rs, fs) ==
    IF fs = {} THEN rs
    ELSE LET f == CHOOSE x \in fs : TRUE
         IN RemoveAll(RemoveFirst(rs, f), fs \ {f})

\* insertItem(insert_pos, item); insert_pos += 1 for each name of order.
RECURSIVE InsertAll(_, _, _)
InsertAll(rs, pos, order) ==
    IF order = <<>> THEN rs
    ELSE InsertAll(InsertItem(rs, pos, FileRow(Head(order))), pos + 1, Tail(order))

\* Inserting at the end of the list instead of before the first header row.
InsertPosAtEnd(rs) == Len(rs)

\* Where handle_folder_change starts inserting in the rows rs.
InsertPos(rs) == DefaultLen(rs)

RemovedFiles(rs, dk, sc) == FileNamesOf(rs) \ SeqToSet(ListedFiles(dk, sc))
AddedFiles(rs, dk, sc) == SeqToSet(ListedFiles(dk, sc)) \ FileNamesOf(rs)

\* The rows after handle_folder_change, the added files taken in the order given.
Reconcile(rs, dk, sc, order) ==
    LET kept == RemoveAll(rs, RemovedFiles(rs, dk, sc))
    IN InsertAll(kept, InsertPos(kept), order)

\* ------------------------------------------------------------ delete_header
\* The 1-based index one past the files that follow the header row i (end_idx).
RECURSIVE EndIdx(_, _)
EndIdx(rs, e) == IF e <= Len(rs) /\ IsFile(rs[e]) THEN EndIdx(rs, e + 1) ELSE e

\* target_pos: one past the nearest header row before position i of the list
\* left after the header and its files were taken, 0 when there is none.
TargetPos(rest, i) ==
    IF \E j \in 1..(i - 1) : IsHeader(rest[j])
    THEN CHOOSE j \in 1..(i - 1) :
            IsHeader(rest[j]) /\ \A k \in (j + 1)..(i - 1) : ~IsHeader(rest[k])
    ELSE 0

\* delete_header taking the header and its files without putting the files back.
DeleteHeaderRowsDroppingFiles(rs, i) ==
    LET e == EndIdx(rs, i + 1)
    IN SubSeq(rs, 1, i - 1) \o SubSeq(rs, e, Len(rs))

\* The rows after delete_header found its widget at row i.
DeleteHeaderRows(rs, i) ==
    LET e == EndIdx(rs, i + 1)
        files_to_move == SubSeq(rs, i + 1, e - 1)
        rest == SubSeq(rs, 1, i - 1) \o SubSeq(rs, e, Len(rs))
        t == TargetPos(rest, i)
    IN SubSeq(rest, 1, t) \o files_to_move \o SubSeq(rest, t + 1, Len(rest))

\* The rows during delete_header for the header at row i, when the header
\* and its files are taken and the first k files are inserted again.
DeleteHeaderInserted(rs, i, k) ==
    LET e == EndIdx(rs, i + 1)
        files_to_move == SubSeq(rs, i + 1, e - 1)
        rest == SubSeq(rs, 1, i - 1) \o SubSeq(rs, e, Len(rs))
        t == TargetPos(rest, i)
    IN SubSeq(rest, 1, t) \o SubSeq(files_to_move, 1, k) \o SubSeq(rest, t + 1, Len(rest))

\* The contents save_yaml writes, in order, during delete_header for the
\* header at row i with folder fp open: one for each insertItem, through
\* rowsInserted, and the one of the call that ends delete_header.
DeleteHeaderWrites(fp, rs, i, sc) ==
    LET n == EndIdx(rs, i + 1) - i - 1
    IN [k \in 1..(n + 1) |->
          SaveYaml(fp, DeleteHeaderInserted(rs, i, IF k <= n THEN k ELSE n), sc)]

\* The lists setFolderPath may end with on the sidecar sc and the files dk.
SetFolderPathResults(sc, dk) ==
    LET mid == RowsBeforeReconcile(sc, dk)
        written == SidecarBeforeReconcile(sc, dk)
    IN {Reconcile(mid, dk, written, order) : order \in Orders(AddedFiles(mid, dk, written))}

\* --------------------------------------------------------------- add_header
\* The header row put in front of the list instead of after its last row.
AddHeaderRowsAtTop(rs) == <<HeaderRow(NewHeaderText)>> \o rs

\* The rows after create_header_item("New Header"): addItem appends the row.
AddHeaderRows(rs) == Append(rs, HeaderRow(NewHeaderText))

\* ---------------------------------------------------- finish_editing_header
\* The stripped text kept as it is, empty or not.
EditedLabelNoCoerce(text) == Strip(text)

\* The label finish_editing_header sets for the text of the line edit.
EditedLabel(text) == IF Strip(text) = <<>> THEN UnnamedHeaderText ELSE Strip(text)

\* What the user may leave in the line edit.
EditTexts == {<<>>, <<" ">>, <<"A">>, <<" ", "A", " ">>}

\* ------------------------------------------------------------- row moves
\* The list's internal drag-move of row i to row j.
MoveRows(rs, i, j) == InsertItem(TakeItem(rs, i), j - 1, rs[i])

\* ------------------------------------------------------------------ state
VARIABLES
    folder_path,   \* self.folder_path
    rows,          \* the items of self.listWidget, in order
    watched,       \* self.watcher.directories()
    disk,          \* the regular files of the folder, the sidecar apart
    sidecar,       \* the content of file_groups.yaml in the folder
    writable,      \* whether open(yaml_path, "w") succeeds in the folder
    page,          \* the page MainWindow.stackedWidget shows
    last           \* the handler that ran last and the state it started from

vars == <<folder_path, rows, watched, disk, sidecar, writable, page, last>>

\* The pages of MainWindow.stackedWidget.
ImportPage == "importFolderWidget"
ListPage == "fileListWidget"

\* last: the handler's name and whether its writes of the sidecar succeeded;
\* for a run of handle_folder_change its added_files and removed_files; for
\* setFolderPath also the sidecar it found and the rows it had loaded when it
\* called handle_folder_change.
Ran(name) ==
    [name |-> name, ok |-> writable, added |-> {}, removed |-> {},
     sidecar |-> NoSidecar, mid |-> <<>>]

\* The sidecar after open(yaml_path, "w") and yaml.dump of new: open raises
\* in a folder that is not writable and the file stays as it was.
Write(new) == IF writable THEN new ELSE sidecar

\* Sidecars found in a folder that this program did not write as they are.
LabelA == <<"A">>
ExternalSidecars ==
    {NoSidecar,
     Garbage,
     Groups(<<Section(DefaultKey, <<>>, <<DirOrder[1]>>),
              Section(Str(1), LabelA, <<DirOrder[1]>>)>>),
     Groups(<<Section(Str(1), LabelA, <<DirOrder[1]>>),
              [Section(Str(2), NewHeaderText, <<>>) EXCEPT !.fields = {"header"}]>>),
     Groups(<<Section(DefaultKey, <<>>, <<DirOrder[1]>>),
              [Section(Str(1), <<>>, <<DirOrder[2]>>) EXCEPT !.fields = {"files"}]>>),
     Groups(<<Section(DefaultKey, <<>>, <<>>),
              Section(Str(2), LabelA, <<DirOrder[1]>>),
              Section(Str(10), NewHeaderText, <<DirOrder[2]>>)>>)}

Init ==
    /\ folder_path = NoFolder
    /\ rows = <<>>
    /\ watched = {}
    /\ disk \in SUBSET Files
    /\ sidecar \in ExternalSidecars
    /\ writable = TRUE
    /\ page = ImportPage
    /\ last = Ran("init")

\* MainWindow.onFolderSelected: setFolderPath(folder_path), then the list
\* page is shown. The fallback's own open(yaml_path, "w") comes before the
\* rows are added, the watcher is set and handle_folder_change is called:
\* when it raises, none of them happens. When the last save_yaml of
\* handle_folder_change raises, the rows and the watcher are set already.
\* Either exception leaves onFolderSelected before it changes the page. A
\* save_yaml that raises inside the slot of rowsInserted is reported by
\* PySide6 and does not reach the statement that added the row.
SetFolderPath ==
    /\ page = ImportPage
    /\ folder_path' = Folder
    /\ IF ~writable /\ Len(LoadRows(sidecar, disk)) = 0
       THEN /\ rows' = <<>>
            /\ last' = [Ran("setFolderPath") EXCEPT !.sidecar = sidecar]
            /\ UNCHANGED <<watched, sidecar>>
       ELSE /\ LET mid == RowsBeforeReconcile(sidecar, disk)
                   written == Write(SidecarBeforeReconcile(sidecar, disk))
               IN \E order \in Orders(AddedFiles(mid, disk, written)) :
                    /\ rows' = Reconcile(mid, disk, written, order)
                    /\ sidecar' = Write(SaveYaml(Folder, rows', written))
                    /\ last' = [Ran("setFolderPath") EXCEPT
                                    !.added = AddedFiles(mid, disk, written),
                                    !.removed = RemovedFiles(mid, disk, written),
                                    !.sidecar = sidecar, !.mid = mid]
            /\ watched' = (watched \ watched) \cup {Folder}
    /\ page' = IF writable THEN ListPage ELSE page
    /\ UNCHANGED <<disk, writable>>

\* handle_folder_change(), on a directoryChanged notification of the watcher.
HandleFolderChange ==
    /\ watched # {}
    /\ folder_path # NoFolder
    /\ \E order \in Orders(AddedFiles(rows, disk, sidecar)) :
            rows' = Reconcile(rows, disk, sidecar, order)
    /\ sidecar' = Write(SaveYaml(folder_path, rows', sidecar))
    /\ last' = [Ran("handle_folder_change") EXCEPT
                    !.added = AddedFiles(rows, disk, sidecar),
                    !.removed = RemovedFiles(rows, disk, sidecar)]
    /\ UNCHANGED <<folder_path, watched, disk, writable, page>>

\* add_header().
AddHeader ==
    /\ page = ListPage
    /\ HeaderCount(rows) < MaxHeaders
    /\ rows' = AddHeaderRows(rows)
    /\ sidecar' = Write(SaveYaml(folder_path, rows', sidecar))
    /\ last' = Ran("add_header")
    /\ UNCHANGED <<folder_path, watched, disk, writable, page>>

\* edit_header_item(item) for the header at row i, when no line edit is
\* open, and the user's typing of text in the line edit.
EditHeaderItemAt(i, text) ==
    /\ page = ListPage
    /\ i \in 1..Len(rows)
    /\ IsHeader(rows[i])
    /\ \A k \in 1..Len(rows) : ~rows[k].editing
    /\ rows' = [rows EXCEPT ![i].editing = TRUE, ![i].label = text]
    /\ last' = Ran("edit_header_item")
    /\ UNCHANGED <<folder_path, watched, disk, sidecar, writable, page>>

EditHeaderItem == \E i \in 1..Len(rows), text \in EditTexts : EditHeaderItemAt(i, text)

\* finish_editing_header(item, edit), on editingFinished of the line edit of
\* the header at row i.
EditingFinishedAt(i) ==
    /\ page = ListPage
    /\ i \in 1..Len(rows)
    /\ IsHeader(rows[i])
    /\ rows[i].editing
    /\ rows' = [rows EXCEPT ![i].editing = FALSE, ![i].label = EditedLabel(rows[i].label)]
    /\ sidecar' = Write(SaveYaml(folder_path, rows', sidecar))
    /\ last' = Ran("finish_editing_header")
    /\ UNCHANGED <<folder_path, watched, disk, writable, page>>

EditingFinished == \E i \in 1..Len(rows) : EditingFinishedAt(i)

\* A rename in one step: edit_header_item for the header at row i, the text
\* typed and finish_editing_header, with no other handler in between.
FinishEditingHeader ==
    /\ page = ListPage
    /\ \E i \in 1..Len(rows), text \in EditTexts :
        /\ IsHeader(rows[i])
        /\ ~rows[i].editing
        /\ rows' = [rows EXCEPT ![i].label = EditedLabel(text)]
        /\ last' = Ran("finish_editing_header")
    /\ sidecar' = Write(SaveYaml(folder_path, rows', sidecar))
    /\ UNCHANGED <<folder_path, watched, disk, writable, page>>

\* delete_header(item_widget) for the widget of the header at row i.
DeleteHeaderAt(i) ==
    /\ page = ListPage
    /\ i \in 1..Len(rows)
    /\ IsHeader(rows[i])
    /\ rows' = DeleteHeaderRows(rows, i)
    /\ last' = Ran("delete_header")
    /\ sidecar' = Write(SaveYaml(folder_path, rows', sidecar))
    /\ UNCHANGED <<folder_path, watched, disk, writable, page>>

DeleteHeader == \E i \in 1..Len(rows) : DeleteHeaderAt(i)

\* delete_header(item_widget) for a widget that no row of the list has: the
\* loop over the rows finds no match, nothing is taken and save_yaml is not
\* called.
DeleteHeaderMissing ==
    /\ page = ListPage
    /\ last' = Ran("delete_header_missing")
    /\ UNCHANGED <<folder_path, rows, watched, disk, sidecar, writable, page>>

\* A drag-move of row i to row j inside the list; rowsMoved runs save_yaml.
MoveRowAt(i, j) ==
    /\ page = ListPage
    /\ i \in 1..Len(rows) /\ j \in 1..Len(rows)
    /\ i # j
    /\ rows' = MoveRows(rows, i, j)
    /\ last' = Ran("move")
    /\ sidecar' = Write(SaveYaml(folder_path, rows', sidecar))
    /\ UNCHANGED <<folder_path, watched, disk, writable, page>>

MoveRow == \E i, j \in 1..Len(rows) : MoveRowAt(i, j)

\* MainWindow.onBackRequested: reset(), then the import page is shown.
Reset ==
    /\ page = ListPage
    /\ folder_path' = NoFolder
    /\ rows' = <<>>
    /\ watched' = watched \ watched
    /\ page' = ImportPage
    /\ last' = Ran("reset")
    /\ UNCHANGED <<disk, sidecar, writable>>

\* A file appears in the folder or disappears from it, outside the program.
FsChange ==
    /\ \E f \in Files : disk' = IF f \in disk THEN disk \ {f} ELSE disk \cup {f}
    /\ last' = Ran("fs_change")
    /\ UNCHANGED <<folder_path, rows, watched, sidecar, writable, page>>

\* The folder becomes writable or stops being writable, outside the program.
FolderPermissionChange ==
    /\ writable' = ~writable
    /\ last' = [Ran("chmod") EXCEPT !.ok = writable']
    /\ UNCHANGED <<folder_path, rows, watched, disk, sidecar, page>>

Next ==
    \/ SetFolderPath
    \/ HandleFolderChange
    \/ AddHeader
    \/ FinishEditingHeader
    \/ DeleteHeader
    \/ DeleteHeaderMissing
    \/ MoveRow
    \/ Reset
    \/ FsChange

Spec == Init /\ [][Next]_vars

\* The program in a folder that may refuse the writes of the sidecar.
InitWriteFailure ==
    /\ folder_path = NoFolder
    /\ rows = <<>>
    /\ watched = {}
    /\ disk \in SUBSET Files
    /\ sidecar \in ExternalSidecars
    /\ writable \in BOOLEAN
    /\ page = ImportPage
    /\ last = Ran("init")

NextWriteFailure ==
    \/ Next
    \/ FolderPermissionChange

SpecWriteFailure == InitWriteFailure /\ [][NextWriteFailure]_vars

\* The events that may still reach the widget after reset, before a folder
\* is opened again.
AfterReset ==
    /\ folder_path = NoFolder
    /\ last.name \in {"reset", "late_folder_change", "add_header_no_folder"}

\* handle_folder_change() on a notification that was under way when reset
\* ran: folder_path is None and the handler returns at once.
LateFolderChange ==
    /\ AfterReset
    /\ last' = Ran("late_folder_change")
    /\ UNCHANGED <<folder_path, rows, watched, disk, sidecar, writable, page>>

\* add_header() while no folder is open: the header row is added to the
\* list, and save_yaml, called by rowsInserted and by add_header, returns
\* at its test of folder_path.
AddHeaderAfterReset ==
    /\ AfterReset
    /\ HeaderCount(rows) < MaxHeaders
    /\ rows' = AddHeaderRows(rows)
    /\ sidecar' = Write(SaveYaml(folder_path, rows', sidecar))
    /\ last' = Ran("add_header_no_folder")
    /\ UNCHANGED <<folder_path, watched, disk, writable, page>>

NextBack ==
    \/ Next
    \/ LateFolderChange
    \/ AddHeaderAfterReset

SpecBack == Init /\ [][NextBack]_vars

\* The program with the line edit of a header open across other handlers.
NextEdit ==
    \/ SetFolderPath
    \/ HandleFolderChange
    \/ AddHeader
    \/ EditHeaderItem
    \/ EditingFinished
    \/ Reset
    \/ FsChange

SpecEdit == Init /\ [][NextEdit]_vars

\* =============================================== widgets/file_list.py
\* The earlier FileListWidget of widgets/file_list.py: headers are plain
\* editable items, the first section is keyed "top" and has a header row of
\* its own, "default section". It is modelled on the same variables.
LegacyTopKey == <<"t", "o", "p">>
LegacyDefaultHeader ==
    <<"d", "e", "f", "a", "u", "l", "t", " ", "s", "e", "c", "t", "i", "o", "n">>

\* The sort key of setFolderPath, (x != "top", x), compared as tuples.
LegacyKeyLess(x, y) ==
    IF (x # LegacyTopKey) # (y # LegacyTopKey) THEN x = LegacyTopKey
    ELSE StrLess(x, y)

RECURSIVE LegacySortedKeys(_)
LegacySortedKeys(ks) ==
    IF ks = {} THEN <<>>
    ELSE LET m == CHOOSE k \in ks : \A o \in ks \ {k} : LegacyKeyLess(k, o)
         IN <<m>> \o LegacySortedKeys(ks \ {m})

\* The loop of save_yaml over the rows, from row i on.
RECURSIVE LegacySaveLoop(_, _, _)
LegacySaveLoop(rs, i, st) ==
    IF i > Len(rs) THEN st
    ELSE IF IsHeader(rs[i])
    THEN LegacySaveLoop(rs, i + 1,
            [file_groups |->
                IF ~st.in_top_section \/ st.current_files # <<>>
                THEN PutGroup(st.file_groups, st.current_section,
                              st.current_header, st.current_files)
                ELSE st.file_groups,
             in_top_section |-> FALSE,
             current_section |-> Str(st.section_index + 1),
             current_header |-> rs[i].label,
             current_files |-> <<>>,
             section_index |-> st.section_index + 1])
    ELSE LegacySaveLoop(rs, i + 1, [st EXCEPT !.current_files = Append(@, rs[i].text)])

\* The mapping save_yaml dumps for the rows rs.
LegacyFileGroupsOf(rs) ==
    LET st == LegacySaveLoop(rs, 1,
                [file_groups |-> <<>>,
                 in_top_section |-> TRUE,
                 current_section |-> LegacyTopKey,
                 current_header |-> LegacyDefaultHeader,
                 current_files |-> <<>>,
                 section_index |-> 0])
    IN IF ~st.in_top_section \/ st.current_files # <<>>
       THEN PutGroup(st.file_groups, st.current_section,
                     st.current_header, st.current_files)
       ELSE st.file_groups

LegacySaveYaml(fp, rs, sc) == IF fp = NoFolder THEN sc ELSE Groups(LegacyFileGroupsOf(rs))

\* The loop of setFolderPath over the sorted keys, from key i on: every
\* section gets a header row. A section without "header" or "files" raises
\* KeyError: the loop ends there and the rows added so far stay in the list.
RECURSIVE LegacyLoadLoop(_, _, _, _, _)
LegacyLoadLoop(fg, ks, i, dk, acc) ==
    IF i > Len(ks) THEN acc
    ELSE LET section == GroupOf(fg, ks[i])
             Exists(f) == f \in dk
             withHeader == Append(acc, HeaderRow(section.header))
             withFiles == withHeader \o FileRows(SelectSeq(section.files, Exists))
         IN IF "header" \notin section.fields THEN acc
            ELSE IF "files" \notin section.fields THEN withHeader
            ELSE LegacyLoadLoop(fg, ks, i + 1, dk, withFiles)

LegacyLoadRows(sc, dk) ==
    IF sc.kind # "groups" THEN <<>>
    ELSE LegacyLoadLoop(sc.groups,
                        LegacySortedKeys({sc.groups[i].key : i \in 1..Len(sc.groups)}),
                        1, dk, <<>>)

\* The fallback of setFolderPath: the sidecar it writes and the rows it adds.
LegacyFallbackSidecar(dk, sc) ==
    Groups(<<Section(LegacyTopKey, LegacyDefaultHeader, ListedFiles(dk, sc))>>)

LegacyFallbackRows(dk, sc) ==
    <<HeaderRow(LegacyDefaultHeader)>> \o FileRows(ListedFiles(dk, sc))

LegacyRowsBeforeReconcile(sc, dk) ==
    IF Len(LegacyLoadRows(sc, dk)) = 0 THEN LegacyFallbackRows(dk, sc)
    ELSE LegacyLoadRows(sc, dk)

LegacySidecarBeforeReconcile(sc, dk) ==
    IF Len(LegacyLoadRows(sc, dk)) = 0 THEN LegacyFallbackSidecar(dk, sc) ELSE sc

\* insert_pos of handle_folder_change: the index of the first header row,
\* the number of rows when there is none.
LegacyInsertPos(rs) ==
    IF \E i \in 1..Len(rs) : IsHeader(rs[i])
    THEN (CHOOSE i \in 1..Len(rs) : IsHeader(rs[i]) /\ \A j \in 1..(i - 1) : ~IsHeader(rs[j])) - 1
    ELSE Len(rs)

\* The rows after handle_folder_change, the added files taken in the order given.
LegacyReconcile(rs, dk, sc, order) ==
    LET kept == RemoveAll(rs, RemovedFiles(rs, dk, sc))
    IN InsertAll(kept, LegacyInsertPos(kept), order)

\* The lists setFolderPath may end with on the sidecar sc and the files dk.
LegacySetFolderPathResults(sc, dk) ==
    LET mid == LegacyRowsBeforeReconcile(sc, dk)
        written == LegacySidecarBeforeReconcile(sc, dk)
    IN {LegacyReconcile(mid, dk, written, order) :
            order \in Orders(AddedFiles(mid, dk, written))}

\* Sidecars found in a folder that this program did not write as they are.
LegacyExternalSidecars ==
    {NoSidecar,
     Garbage,
     Groups(<<Section(LegacyTopKey, LegacyDefaultHeader, <<DirOrder[1]>>),
              Section(Str(1), LabelA, <<DirOrder[2]>>)>>),
     Groups(<<Section(Str(1), LabelA, <<DirOrder[1]>>),
              [Section(Str(2), NewHeaderText, <<>>) EXCEPT !.fields = {"header"}]>>)}

LegacyInit ==
    /\ folder_path = NoFolder
    /\ rows = <<>>
    /\ watched = {}
    /\ disk \in SUBSET Files
    /\ sidecar \in LegacyExternalSidecars
    /\ writable = TRUE
    /\ page = ImportPage
    /\ last = Ran("init")

\* setFolderPath(folder_path), reached from the folder selection page.
LegacySetFolderPath ==
    /\ page = ImportPage
    /\ LET mid == LegacyRowsBeforeReconcile(sidecar, disk)
           written == LegacySidecarBeforeReconcile(sidecar, disk)
       IN \E order \in Orders(AddedFiles(mid, disk, written)) :
            /\ rows' = LegacyReconcile(mid, disk, written, order)
            /\ Len(rows') <= MaxLegacyRows
            /\ sidecar' = LegacySaveYaml(Folder, rows', written)
            /\ last' = [Ran("setFolderPath") EXCEPT
                            !.added = AddedFiles(mid, disk, written),
                            !.removed = RemovedFiles(mid, disk, written),
                            !.sidecar = sidecar, !.mid = mid]
    /\ folder_path' = Folder
    /\ watched' = (watched \ watched) \cup {Folder}
    /\ page' = ListPage
    /\ UNCHANGED <<disk, writable>>

\* handle_folder_change(), on a directoryChanged notification of the watcher.
LegacyHandleFolderChange ==
    /\ watched # {}
    /\ folder_path # NoFolder
    /\ \E order \in Orders(AddedFiles(rows, disk, sidecar)) :
            rows' = LegacyReconcile(rows, disk, sidecar, order)
    /\ Len(rows') <= MaxLegacyRows
    /\ sidecar' = LegacySaveYaml(folder_path, rows', sidecar)
    /\ last' = [Ran("handle_folder_change") EXCEPT
                    !.added = AddedFiles(rows, disk, sidecar),
                    !.removed = RemovedFiles(rows, disk, sidecar)]
    /\ UNCHANGED <<folder_path, watched, disk, writable, page>>

\* add_header(): addItem, and save_yaml through rowsInserted.
LegacyAddHeader ==
    /\ page = ListPage
    /\ Len(rows) < MaxLegacyRows
    /\ rows' = Append(rows, HeaderRow(NewHeaderText))
    /\ sidecar' = LegacySaveYaml(folder_path, rows', sidecar)
    /\ last' = Ran("add_header")
    /\ UNCHANGED <<folder_path, watched, disk, writable, page>>

\* The user edits the text of the header item at row i in place;
\* itemChanged runs save_yaml.
LegacyItemChanged ==
    /\ page = ListPage
    /\ \E i \in 1..Len(rows) :
        /\ IsHeader(rows[i])
        /\ rows[i].label # LabelA
        /\ rows' = [rows EXCEPT ![i].label = LabelA]
    /\ sidecar' = LegacySaveYaml(folder_path, rows', sidecar)
    /\ last' = Ran("item_changed")
    /\ UNCHANGED <<folder_path, watched, disk, writable, page>>

\* A drag-move of one row inside the list; rowsMoved runs save_yaml.
LegacyMoveRow ==
    /\ page = ListPage
    /\ \E i, j \in 1..Len(rows) :
        /\ i # j
        /\ rows' = MoveRows(rows, i, j)
    /\ sidecar' = LegacySaveYaml(folder_path, rows', sidecar)
    /\ last' = Ran("move")
    /\ UNCHANGED <<folder_path, watched, disk, writable, page>>

\* reset(), on back navigation.
LegacyReset ==
    /\ page = ListPage
    /\ folder_path' = NoFolder
    /\ rows' = <<>>
    /\ watched' = watched \ watched
    /\ page' = ImportPage
    /\ last' = Ran("reset")
    /\ UNCHANGED <<disk, sidecar, writable>>

LegacyNext ==
    \/ LegacySetFolderPath
    \/ LegacyHandleFolderChange
    \/ LegacyAddHeader
    \/ LegacyItemChanged
    \/ LegacyMoveRow
    \/ LegacyReset
    \/ FsChange

SpecLegacy == LegacyInit /\ [][LegacyNext]_vars

\* ================================================================ claims
FolderOpen == folder_path # NoFolder

\* A reconciliation pass has just returned: handle_folder_change ran on a
\* notification, or as the last statement of setFolderPath.
Reconciled == last.name \in {"handle_folder_change", "setFolderPath"}

\* C1: round trip. Writing the document with save_yaml and reopening the
\* folder with setFolderPath, the files on disk being exactly the document's
\* files, yields the same rows in the same order (same sections, same header
\* labels, same file order), also for headers that have no files.
C1_RoundTrip ==
    (FolderOpen /\ FileNamesOf(rows) = disk)
        => SetFolderPathResults(SaveYaml(folder_path, rows, sidecar), disk) = {rows}

\* C2: global uniqueness. With a folder open, no filename appears in more
\* than one row of the document.
C2_GlobalUniqueness ==
    FolderOpen =>
        \A i, j \in 1..Len(rows) :
            (i # j /\ IsFile(rows[i]) /\ IsFile(rows[j])) => rows[i].text # rows[j].text

\* C3: reconciliation postcondition. Whenever handle_folder_change has
\* returned, the set of filenames in the document equals the set of regular
\* files in the folder, file_groups.yaml apart.
C3_ReconcilePostcondition ==
    Reconciled => FileNamesOf(rows) = disk

\* C4: reconciliation idempotence. A run of handle_folder_change that follows
\* a run of handle_folder_change, the directory listing unchanged in between,
\* leaves the rows as the first run left them.
C4_ReconcileIdempotent ==
    [][(Reconciled /\ last'.name = "handle_folder_change") => rows' = rows]_vars

\* C5: deletion re-homing. delete_header of the header at row i removes that
\* row and leaves its files after the files of the nearest preceding section
\* (the default section when it is the first header), every other row where
\* it was: the list is the old list without row i.
C5_DeletionRehoming ==
    [][\A i \in 1..Len(rows) : DeleteHeaderAt(i) => rows' = TakeItem(rows, i)]_vars

\* The rows of rs that are headers or files named in keep, in order.
RowsKeeping(rs, keep) ==
    LET Kept(r) == IsHeader(r) \/ r.text \in keep
    IN SelectSeq(rs, Kept)

\* Reconciliation took the rows pre to the rows post with the files dk on
\* disk and put every file of dk that pre lacked at the end of the default
\* section: the new files are the rows just before the first header row (the
\* last rows when there is no header), each once, and nowhere else.
PlacedInDefault(pre, post, dk) ==
    LET new == dk \ FileNamesOf(pre)
        k == DefaultLen(post)
        n == Cardinality(new)
    IN /\ n <= k
       /\ {post[i].text : i \in (k - n + 1)..k} = new
       /\ \A i \in 1..Len(post) :
            (IsFile(post[i]) /\ post[i].text \in new) => i \in (k - n + 1)..k

\* C6: addition placement. Each file on disk that is not in the document is
\* inserted by handle_folder_change at the end of the default section,
\* immediately before the first header row or at the end of the list when
\* there is no header; no new file lands in a non-default section.
C6_AdditionPlacement ==
    [][/\ last'.name = "handle_folder_change" => PlacedInDefault(rows, rows', disk')
       /\ last'.name = "setFolderPath" => PlacedInDefault(last'.mid, rows', disk')]_vars

\* C6 witness: a notification-driven run of handle_folder_change added a
\* file to a list that has a header row with a file under it.
C6_Witness ==
    /\ last.name = "handle_folder_change"
    /\ last.added # {}
    /\ \E i \in 1..(Len(rows) - 1) : IsHeader(rows[i]) /\ IsFile(rows[i + 1])

\* C7: removal and frame. handle_folder_change removes exactly the files
\* that are no longer on disk; the header rows and the surviving file rows are
\* the same rows in the same order as before.
C7_RemovalFrame ==
    [][last'.name = "handle_folder_change"
         => RowsKeeping(rows', FileNamesOf(rows)) = RowsKeeping(rows, disk)]_vars

\* C8: key renumbering. The sidecar save_yaml wrote keys its non-default
\* sections "1", "2", ..., "n" in order, without a gap, also when the
\* document has headers without files.
C8_ContiguousKeys ==
    FolderOpen =>
        /\ sidecar.kind = "groups"
        /\ \A i \in 2..Len(sidecar.groups) : sidecar.groups[i].key = Str(i - 1)

\* The names of s are in directory enumeration order, each once.
InDirOrder(s) ==
    \A i, j \in 1..Len(s) : i < j => DirIndex(s[i]) < DirIndex(s[j])

Invalid(sc) ==
    \/ sc.kind = "garbage"
    \/ /\ sc.kind = "groups"
       /\ \E i \in 1..Len(sc.groups) :
            \/ "files" \notin sc.groups[i].fields
            \/ sc.groups[i].key # DefaultKey /\ "header" \notin sc.groups[i].fields

\* C10: ParseError recovery. When the sidecar is structurally invalid in any
\* section, setFolderPath ends with the synthesized single default section:
\* no header row, and exactly the files on disk.
C10_ParseErrorRecovery ==
    (last.name = "setFolderPath" /\ Invalid(last.sidecar)) =>
        /\ HeaderCount(rows) = 0
        /\ FileNamesOf(rows) = disk
        /\ Len(rows) = Cardinality(disk)

\* The number a key of decimal digits denotes.
RECURSIVE NumericValue(_)
NumericValue(key) ==
    IF key = <<>> THEN 0
    ELSE 10 * NumericValue(SubSeq(key, 1, Len(key) - 1)) + (Ord(key[Len(key)]) - Ord("0"))

\* "default" first, then the decimal keys by ascending numeric value.
RECURSIVE NumericSortedKeys(_)
NumericSortedKeys(ks) ==
    IF ks = {} THEN <<>>
    ELSE IF DefaultKey \in ks THEN <<DefaultKey>> \o NumericSortedKeys(ks \ {DefaultKey})
    ELSE LET m == CHOOSE k \in ks :
                    \A o \in ks \ {k} : NumericValue(k) < NumericValue(o)
         IN <<m>> \o NumericSortedKeys(ks \ {m})

\* The sidecar sc is a file_groups mapping with every section complete.
Valid(sc) == sc.kind = "groups" /\ ~Invalid(sc)

KeysOf(sc) == {sc.groups[i].key : i \in 1..Len(sc.groups)}

\* C12: load ordering. setFolderPath lays the sections of a valid sidecar out
\* with "default" first and the other sections by ascending numeric value of
\* their keys ("2" before "10"): the rows loaded are those of the sections
\* taken in that order.
C12_LoadOrdering ==
    (/\ last.name = "setFolderPath"
     /\ Valid(last.sidecar)
     /\ Len(LoadRows(last.sidecar, disk)) > 0)
        => last.mid = LoadLoop(last.sidecar.groups,
                               NumericSortedKeys(KeysOf(last.sidecar)), 1, disk, <<>>)

\* The filenames of the rows of the default section, in list order.
DefaultFiles(rs) == [i \in 1..DefaultLen(rs) |-> rs[i].text]

\* The sections of the rows rs after the default one, in list order: the
\* label of each header row and the filenames of the rows under it.
RECURSIVE SectionsFrom(_, _)
SectionsFrom(rs, i) ==
    IF i > Len(rs) THEN <<>>
    ELSE LET e == EndIdx(rs, i + 1)
         IN <<[header |-> rs[i].label,
               files |-> [k \in 1..(e - 1 - i) |-> rs[i + k].text]]>>
            \o SectionsFrom(rs, e)

SectionsOf(rs) == SectionsFrom(rs, DefaultLen(rs) + 1)

\* The names of fs that are files of the folder, in the order of fs.
Existing(fs, dk) == LET OnDisk(f) == f \in dk IN SelectSeq(fs, OnDisk)

\* The sections of the sidecar sc other than "default", in file order, and
\* the files sc lists under "default".
NonDefault(sc) == LET Named(g) == g.key # DefaultKey IN SelectSeq(sc.groups, Named)

DefaultListed(sc) ==
    IF DefaultKey \in KeysOf(sc) THEN GroupOf(sc.groups, DefaultKey).files ELSE <<>>

\* t holds the elements of s in some order.
IsPermutation(s, t) ==
    /\ Len(s) = Len(t)
    /\ \E p \in Orders(1..Len(s)) : t = [k \in 1..Len(s) |-> s[p[k]]]

\* C13: missing files at load. For a valid sidecar that loads at least one
\* row, a listed file that is not in the folder is absent from the loaded
\* document, every listed file that is in the folder is under the header it
\* is listed under, in the order of the listing, and the fallback is not
\* taken: the loaded sections are the sidecar's sections with the missing
\* files left out, and the reconciliation that follows keeps them.
C13_MissingFilesAtLoad ==
    (/\ last.name = "setFolderPath"
     /\ Valid(last.sidecar)
     /\ (NonDefault(last.sidecar) # <<>>
            \/ Existing(DefaultListed(last.sidecar), disk) # <<>>))
        => /\ FileNamesOf(last.mid) \subseteq disk
           /\ FileNamesOf(rows) \subseteq disk
           /\ DefaultFiles(last.mid) = Existing(DefaultListed(last.sidecar), disk)
           /\ IsPermutation(
                 [k \in 1..Len(NonDefault(last.sidecar)) |->
                    [header |-> NonDefault(last.sidecar)[k].header,
                     files |-> Existing(NonDefault(last.sidecar)[k].files, disk)]],
                 SectionsOf(last.mid))
           /\ SectionsOf(rows) = SectionsOf(last.mid)
           /\ SubSeq(DefaultFiles(rows), 1, DefaultLen(last.mid)) = DefaultFiles(last.mid)

\* C13 witness: a valid sidecar that lists a file under a header was opened
\* while a file it lists was missing from the folder.
C13_Witness ==
    /\ last.name = "setFolderPath"
    /\ Valid(last.sidecar)
    /\ \E i \in 1..Len(last.sidecar.groups) :
            \E k \in 1..Len(last.sidecar.groups[i].files) :
                last.sidecar.groups[i].files[k] \notin disk
    /\ \E i \in 1..(Len(rows) - 1) : IsHeader(rows[i]) /\ IsFile(rows[i + 1])

\* C14: section moves keep header and files together. A drag-move of a
\* header row relocates the header with its files or is rejected: after it
\* the default section holds the files it held and every header has the
\* files it had.
C14_SectionMoveKeepsFiles ==
    [][\A i, j \in 1..Len(rows) :
          (MoveRowAt(i, j) /\ IsHeader(rows[i]))
              => /\ DefaultFiles(rows') = DefaultFiles(rows)
                 /\ IsPermutation(SectionsOf(rows), SectionsOf(rows'))]_vars

\* C15: addHeader. add_header appends one header row labelled "New Header"
\* as the last row, so with no file under it, leaves every row there was as
\* it was, and saves the document.
C15_AddHeader ==
    [][last'.name = "add_header"
         => /\ Len(rows') = Len(rows) + 1
            /\ SubSeq(rows', 1, Len(rows)) = rows
            /\ IsHeader(rows'[Len(rows')])
            /\ rows'[Len(rows')].label = <<"N", "e", "w", " ", "H", "e", "a", "d", "e", "r">>
            /\ sidecar' = Groups(FileGroupsOf(rows'))]_vars

\* C15 witness: add_header ran on a list that had a file row.
C15_Witness ==
    /\ last.name = "add_header"
    /\ Len(rows) >= 2
    /\ IsFile(rows[1])
    /\ IsHeader(rows[Len(rows)])

\* s is the end of t.
IsSuffix(s, t) == Len(s) <= Len(t) /\ SubSeq(t, Len(t) - Len(s) + 1, Len(t)) = s

\* C17: deleteHeader rejection. delete_header for a header that is not in
\* the document leaves the document and the sidecar as they are, and nothing
\* deletes the default section: every sidecar the program wrote has exactly
\* one entry keyed "default", and delete_header of a header leaves the files
\* of the default section in the default section.
C17_DeleteHeaderRejection ==
    [][/\ last'.name = "delete_header_missing" => (rows' = rows /\ sidecar' = sidecar)
       /\ folder_path' # NoFolder
            => /\ sidecar'.kind = "groups"
               /\ Cardinality({i \in 1..Len(sidecar'.groups) :
                                 sidecar'.groups[i].key = DefaultKey}) = 1
       /\ last'.name = "delete_header"
            => IsSuffix(DefaultFiles(rows), DefaultFiles(rows'))]_vars

\* C17 witness: delete_header ran for a widget of no row, on a document
\* that has a header row and a file in its default section.
C17_Witness ==
    /\ last.name = "delete_header_missing"
    /\ HeaderCount(rows) >= 1
    /\ DefaultLen(rows) >= 1

\* C19: default section emitted first. The sidecar save_yaml wrote has the
\* key "default" as its first entry, with the header "" and exactly the
\* files of the rows before the first header row, also when there are none.
C19_DefaultFirst ==
    FolderOpen =>
        /\ sidecar.kind = "groups"
        /\ Len(sidecar.groups) >= 1
        /\ sidecar.groups[1].key = <<"d", "e", "f", "a", "u", "l", "t">>
        /\ sidecar.groups[1].fields = {"header", "files"}
        /\ sidecar.groups[1].header = <<>>
        /\ sidecar.groups[1].files = DefaultFiles(rows)

\* C19 witness: the document saved starts with a header row that has a
\* file under it: the default section is empty and another section is written.
C19_Witness ==
    /\ FolderOpen
    /\ Len(rows) >= 2
    /\ IsHeader(rows[1])
    /\ IsFile(rows[2])
    /\ Len(sidecar.groups) = 2

\* The handlers that end with a write of the sidecar.
SavingHandlers ==
    {"setFolderPath", "handle_folder_change", "add_header",
     "finish_editing_header", "delete_header", "move"}

\* The rows the handler called name may leave, from the current state, when
\* its writes of the sidecar succeed.
RowsWhenWritten(name) ==
    CASE name = "setFolderPath" -> SetFolderPathResults(sidecar, disk)
      [] name = "handle_folder_change" ->
            {Reconcile(rows, disk, sidecar, order) :
                order \in Orders(AddedFiles(rows, disk, sidecar))}
      [] name = "add_header" -> {Append(rows, HeaderRow(NewHeaderText))}
      [] name = "finish_editing_header" ->
            {[rows EXCEPT ![i].label = EditedLabel(text), ![i].editing = FALSE] :
                i \in {k \in 1..Len(rows) : IsHeader(rows[k])}, text \in EditTexts}
      [] name = "delete_header" ->
            {DeleteHeaderRows(rows, i) : i \in {k \in 1..Len(rows) : IsHeader(rows[k])}}
      [] name = "move" ->
            {MoveRows(rows, i, j) : i \in 1..Len(rows), j \in 1..Len(rows)}
      [] OTHER -> {rows}

\* C11: write failure. When the write of file_groups.yaml fails in a handler
\* (the save that ends add_header, a rename, delete_header, a move or
\* handle_folder_change, or the fallback's write in setFolderPath), the
\* document in memory has the rows it would have had the write succeeded.
C11_WriteFailure ==
    [][(~writable /\ last'.name \in SavingHandlers)
          => rows' \in RowsWhenWritten(last'.name)]_vars

\* Every character of s is a space.
AllSpaces(s) == \A k \in 1..Len(s) : s[k] = " "

\* C16: renameHeader coercion. When the editing of a header ends, its label
\* is "Unnamed Header" if the text typed is empty or only whitespace, and the
\* stripped text otherwise; no other row changes; the document is saved; and
\* no sidecar written, during the editing or after it, records an empty
\* label for a header.
C16_RenameCoercion ==
    [][/\ \A i \in 1..Len(rows) :
            EditingFinishedAt(i)
                => /\ rows'[i].label =
                        IF AllSpaces(rows[i].label)
                        THEN <<"U", "n", "n", "a", "m", "e", "d", " ",
                               "H", "e", "a", "d", "e", "r">>
                        ELSE Strip(rows[i].label)
                   /\ IsHeader(rows'[i])
                   /\ Len(rows') = Len(rows)
                   /\ \A k \in 1..Len(rows) : k # i => rows'[k] = rows[k]
                   /\ sidecar' = Groups(FileGroupsOf(rows'))
       /\ folder_path' # NoFolder
            => \A k \in 1..Len(sidecar'.groups) :
                  sidecar'.groups[k].key # DefaultKey
                      => /\ sidecar'.groups[k].header # <<>>
                         /\ ~AllSpaces(sidecar'.groups[k].header)]_vars

\* C16 witness: the editing of a header that has a file under it ended
\* with only whitespace typed, and the sidecar records "Unnamed Header".
C16_Witness ==
    /\ last.name = "finish_editing_header"
    /\ \E i \in 1..(Len(rows) - 1) :
            /\ IsHeader(rows[i]) /\ rows[i].label = UnnamedHeaderText
            /\ IsFile(rows[i + 1])
    /\ \E k \in 1..Len(sidecar.groups) : sidecar.groups[k].header = UnnamedHeaderText

\* C20: persistence after every mutation. Whenever add_header,
\* finish_editing_header, delete_header of a header of the list, a row move,
\* handle_folder_change or setFolderPath has completed and its writes
\* succeeded, file_groups.yaml holds what save_yaml serializes for the rows
\* now in the list.
C20_PersistenceAfterMutation ==
    (last.name \in SavingHandlers /\ last.ok)
        => sidecar = Groups(FileGroupsOf(rows))

\* C20 witness: a row move completed on a list that starts with a header
\* row, and the sidecar has a section for that header.
C20_Witness ==
    /\ last.name = "move"
    /\ last.ok
    /\ Len(rows) >= 2
    /\ IsHeader(rows[1])
    /\ Len(sidecar.groups) = 2

\* C18: unconditional save after reconciliation. Every run of
\* handle_folder_change with a folder open, the one that ends setFolderPath
\* included, ends by writing the sidecar, and a run that adds and removes
\* no file rewrites the sidecar with the content the previous save wrote.
\* The previous save is the one that the sidecar in the folder comes from:
\* the run is driven by a notification, or it ends a setFolderPath that
\* directly follows reset.
C18_UnconditionalSave ==
    [][last'.name \in {"handle_folder_change", "setFolderPath"}
         => /\ sidecar' = Groups(FileGroupsOf(rows'))
            /\ (/\ last'.added = {}
                /\ last'.removed = {}
                /\ (last'.name = "handle_folder_change" \/ last.name = "reset"))
                  => sidecar' = sidecar]_vars

\* The number of file rows of rs named f.
CountOf(rs, f) == Cardinality({i \in 1..Len(rs) : IsFile(rs[i]) /\ rs[i].text = f})

\* The rows of rs other than the file rows named f, in order.
RowsWithout(rs, f) ==
    LET Other(r) == IsHeader(r) \/ r.text # f
    IN SelectSeq(rs, Other)

\* C22: external rename. When a file a of the document was renamed to b on
\* disk, b not in the document, and handle_folder_change runs, the document
\* no longer contains a, contains b exactly once, in the default section,
\* and every other row is as it was.
C22_ExternalRename ==
    [][\A a, b \in Files :
          (/\ last'.name = "handle_folder_change"
           /\ last'.removed = {a}
           /\ last'.added = {b})
              => /\ CountOf(rows', a) = 0
                 /\ CountOf(rows', b) = 1
                 /\ \E i \in 1..DefaultLen(rows') : rows'[i].text = b
                 /\ RowsWithout(rows', b) = RowsWithout(rows, a)]_vars

\* C25: no file lost or duplicated by structural edits. add_header, a header
\* rename, delete_header and a row move leave the multiset of filenames of
\* the document as it was: each name has as many rows after as before. The
\* steps that change it are setFolderPath and handle_folder_change, and
\* reset, which discards the document.
C25_StructuralEditsKeepFiles ==
    [][/\ last'.name \in {"add_header", "finish_editing_header", "delete_header",
                          "delete_header_missing", "move"}
            => \A f \in Files : CountOf(rows', f) = CountOf(rows, f)
       /\ (\E f \in Files : CountOf(rows', f) # CountOf(rows, f))
            => last'.name \in {"setFolderPath", "handle_folder_change", "reset"}]_vars

\* C25 witness: delete_header ran and left a document that holds every file
\* of the folder, one of them in two rows.
C25_Witness ==
    /\ last.name = "delete_header"
    /\ FileNamesOf(rows) = Files
    /\ \E f \in Files : CountOf(rows, f) = 2

\* The filenames the sidecar sc lists, in any section.
ListedIn(sc) ==
    UNION {SeqToSet(sc.groups[k].files) : k \in 1..Len(sc.groups)}

\* C21: all-or-nothing header deletion as persistence sees it. Every
\* content written to the sidecar from the start to the end of
\* delete_header, the saves that rowsInserted runs on each insertItem
\* included, lists every file the document held before the deletion.
C21_DeleteAllOrNothing ==
    [][\A i \in 1..Len(rows) :
          DeleteHeaderAt(i)
              => \A k \in 1..Len(DeleteHeaderWrites(folder_path, rows, i, sidecar)) :
                    FileNamesOf(rows)
                        \subseteq ListedIn(DeleteHeaderWrites(folder_path, rows, i, sidecar)[k])]_vars

\* C24: single watched folder. The watcher watches at most one directory,
\* and whenever folder_path is set it watches exactly that folder, also when
\* the fallback's write of the sidecar in setFolderPath fails.
C24_SingleWatchedFolder ==
    /\ Cardinality(watched) <= 1
    /\ folder_path # NoFolder => watched = {folder_path}

\* C23: back navigation discards memory, not disk. reset empties the list,
\* clears folder_path and unwatches every directory without writing the
\* sidecar; from then until the next setFolderPath no event, a late
\* notification or add_header with its row insertion included, writes or
\* changes the sidecar, sets folder_path or watches a directory.
C23_BackNavigation ==
    [][/\ last'.name = "reset"
            => /\ rows' = <<>>
               /\ folder_path' = NoFolder
               /\ watched' = {}
               /\ sidecar' = sidecar
       /\ (folder_path = NoFolder /\ last'.name # "setFolderPath")
            => /\ sidecar' = sidecar
               /\ folder_path' = NoFolder
               /\ watched' = {}]_vars

\* C23 witness: after reset add_header ran with no folder open, and the
\* sidecar of the folder that was open still lists its files.
C23_Witness ==
    /\ folder_path = NoFolder
    /\ last.name = "add_header_no_folder"
    /\ Len(rows) = 1
    /\ sidecar.kind = "groups"
    /\ Len(sidecar.groups) = 2
    /\ ListedIn(sidecar) = Files

\* In the list post, which starts with the header row of its default
\* section, every file that the list pre lacked is a row of that section,
\* below each file of the section that pre had.
PlacedUnderDefaultHeader(pre, post, dk) ==
    LET new == dk \ FileNamesOf(pre)
        end == EndIdx(post, 2)
    IN /\ post # <<>>
       /\ IsHeader(post[1])
       /\ \A i \in 1..Len(post) :
            (IsFile(post[i]) /\ post[i].text \in new)
                => /\ i \in 2..(end - 1)
                   /\ \A j \in 2..(end - 1) : post[j].text \notin new => j < i

\* C26: addition placement in widgets/file_list.py. On a list that starts
\* with the header row of its default section, handle_folder_change puts
\* each file found on disk and not in the list in that section, after the
\* files already under that header.
C26_LegacyAdditionPlacement ==
    [][(/\ last'.name = "handle_folder_change"
        /\ last'.added # {}
        /\ rows # <<>>
        /\ IsHeader(rows[1]))
          => PlacedUnderDefaultHeader(rows, rows', disk')]_vars

\* C27: round trip in widgets/file_list.py. For every document reached,
\* one with files above its first header row included, save_yaml followed
\* by setFolderPath on the same folder with the same files yields the same
\* header rows and file rows in the same order, so no header row is added.
C27_LegacyRoundTrip ==
    (FolderOpen /\ FileNamesOf(rows) = disk)
        => LegacySetFolderPathResults(LegacySaveYaml(folder_path, rows, sidecar), disk)
                = {rows}

====
